---- MODULE Spec2Model ----
(***************************************************************************)
(* Model of dev/makeOrder.go: the unified-order call of the WeChat pay SDK *)
(* (myPayer.UnifiedOrder), its transport helper postUnifiedOrder and the   *)
(* reply signature check unifiedResult.checkWxSign.                        *)
(*                                                                         *)
(* Strings are TLA+ strings; fmt.Sprintf and += are string concatenation.  *)
(* A Go map (Params) is a function from its keys to string values.  An     *)
(* error value is a record [type, msg]: type "nil" is the nil error, type  *)
(* "e" a sentinel of package e, type "errors.New" an errors.New(msg).      *)
(***************************************************************************)
EXTENDS Integers, Sequences, FiniteSets, TLC

\* ------------------------------------------------------------- bounds
\* UnifiedOrder calls made on one Params object in a run.
MaxCalls == 2
\* Required fields the caller leaves out of the Params it builds.
MaxMissing == 2

\* ---------------------------------------------------- program constants
unifiedMustParam ==
    << "appid", "mch_id", "nonce_str", "body", "out_trade_no", "total_fee",
       "spbill_create_ip", "notify_url", "trade_type" >>

unifiedOptionalParam ==
    << "device_info", "sign_type", "detail", "attach", "fee_type", "time_start",
       "time_expire", "goods_tag", "limit_pay", "receipt", "openid" >>

\* http.StatusOK
StatusOK == 200

\* The xml tags of unifiedResult, in field order.
ResultTags ==
    << "return_code", "return_msg", "appid", "mch_id", "device_info", "nonce_str",
       "sign", "result_code", "err_code", "err_code_des", "trade_type",
       "prepay_id", "code_url" >>

\* Package e (not part of this file): the two signature types.
SignTypeMD5 == "MD5"
SignType256 == "HMAC-SHA256"

\* The payer's credentials (defaultPayer / m): fixed once configured.
PayerAppId == "wx1"
PayerMchId == "m1"
PayerApiKey == "K"

\* ------------------------------------------------------------- errors
ErrNil == [type |-> "nil", msg |-> ""]
ErrE(name) == [type |-> "e", msg |-> name]
ErrorsNew(msg) == [type |-> "errors.New", msg |-> msg]
\* Errors of the standard library (http.Post, xml.Decoder.Decode, xml.Marshal).
ErrLib(name) == [type |-> "lib", msg |-> name]

\* ------------------------------------------------------- small helpers
Range(s) == { s[i] : i \in 1..Len(s) }

\* util.HaveInArray(array, key)
HaveInArray(array, key) == \E i \in 1..Len(array) : array[i] = key

\* Params.Add(key, value): insert or overwrite.
ParamsAdd(p, key, value) ==
    [ k \in DOMAIN p \cup {key} |-> IF k = key THEN value ELSE p[k] ]

\* Params.Get(key): the value, or nil (the empty sequence) for a missing key.
Nil == << >>
ParamsGet(p, key) == IF key \in DOMAIN p THEN << p[key] >> ELSE Nil

\* Byte order of the characters that occur in field names ('_' = 95 < 'a' = 97).
ByteOrder == "_abcdefghijklmnopqrstuvwxyz"
ByteOf(c) == CHOOSE i \in 1..Len(ByteOrder) : SubSeq(ByteOrder, i, i) = c

\* a < b in byte-lexicographic order (Go's string <, used by sort.Strings).
RECURSIVE StrLessFrom(_, _, _)
StrLessFrom(a, b, i) ==
    IF i > Len(b) THEN FALSE
    ELSE IF i > Len(a) THEN TRUE
    ELSE LET x == ByteOf(SubSeq(a, i, i))
             y == ByteOf(SubSeq(b, i, i))
         IN  IF x < y THEN TRUE
             ELSE IF x > y THEN FALSE
             ELSE StrLessFrom(a, b, i + 1)
StrLess(a, b) == StrLessFrom(a, b, 1)

\* Params.SortKey(): the keys of the map, sorted.
RECURSIVE SortSet(_)
SortSet(S) ==
    IF S = {} THEN << >>
    ELSE LET least == CHOOSE k \in S : \A o \in S \ {k} : StrLess(k, o)
         IN  << least >> \o SortSet(S \ {least})
ParamsSortKey(p) == SortSet(DOMAIN p)

\* util.SignMd5 / util.SignHMACSHA256: the lower-case hex digest, kept symbolic
\* (an injective function of its arguments); strings.ToUpper of a digest.
SignMd5(s) == "md5:" \o s
SignHMACSHA256(s, key) == "hmac:" \o key \o ":" \o s
DigestToUpper(d) ==
    IF Len(d) >= 4 /\ SubSeq(d, 1, 4) = "md5:" THEN "MD5:" \o SubSeq(d, 5, Len(d))
    ELSE IF Len(d) >= 5 /\ SubSeq(d, 1, 5) = "hmac:" THEN "HMAC:" \o SubSeq(d, 6, Len(d))
    ELSE d

\* ------------------------------------------------------ unifiedResult
EmptyResult == [ t \in Range(ResultTags) |-> "" ]

\* unifiedResult.ListParam(): the non-zero fields, keyed by xml tag.
ListParam(u) == [ t \in { x \in Range(ResultTags) : u[x] # "" } |-> u[t] ]

\* The loop of checkWxSign over the sorted keys; i is the 1-based position,
\* so Go's i == 0 is i = 1 here.
RECURSIVE SignStrLoop(_, _, _)
SignStrLoop(keys, param, i) ==
    IF i > Len(keys) THEN ""
    ELSE LET k == keys[i]
         IN  IF k = "sign" THEN SignStrLoop(keys, param, i + 1)
             ELSE IF i = 1
                  THEN k \o "=" \o param[k] \o SignStrLoop(keys, param, i + 1)
                  ELSE "&" \o k \o "=" \o param[k] \o SignStrLoop(keys, param, i + 1)

\* Mutant of WxSignStr: the prepay_id pair is left out of the hashed string.
WxSignStr_DropsPrepayId(u, apiKey) ==
    LET param == ListParam([u EXCEPT !.prepay_id = ""])
    IN  SignStrLoop(ParamsSortKey(param), param, 1) \o "&key=" \o apiKey

\* The string checkWxSign hashes.
WxSignStr(u, apiKey) ==
    LET param == ListParam(u)
    IN  SignStrLoop(ParamsSortKey(param), param, 1) \o "&key=" \o apiKey

\* The signature checkWxSign computes for a (defaulted, supported) sign type.
WxSign(u, signType, apiKey) ==
    IF signType = SignTypeMD5
    THEN DigestToUpper(SignMd5(WxSignStr(u, apiKey)))
    ELSE DigestToUpper(SignHMACSHA256(WxSignStr(u, apiKey), apiKey))

\* unifiedResult.checkWxSign(signType): (bool, error)
checkWxSign(u, signType, apiKey) ==
    LET st == IF signType = "" THEN SignTypeMD5 ELSE signType
    IN  IF st # SignTypeMD5 /\ st # SignType256
        THEN [ok |-> FALSE, err |-> ErrE("ErrSignType")]
        ELSE IF ParamsGet(ListParam(u), "sign") = Nil
             THEN [ok |-> FALSE, err |-> ErrE("ErrNoSign")]
             ELSE [ok |-> WxSign(u, st, apiKey) = ListParam(u)["sign"], err |-> ErrNil]

\* The string checkWxSign passes to the hash: none ("") when it returns
\* ErrSignType before building it.
HashedBy(u, signType, apiKey) ==
    LET st == IF signType = "" THEN SignTypeMD5 ELSE signType
    IN  IF st # SignTypeMD5 /\ st # SignType256 THEN "" ELSE WxSignStr(u, apiKey)

\* ------------------------------------------- Params.Sign (other file)
\* The canonical string of a field set as the protocol states it: the key=value
\* pairs of the given keys joined by '&', none before the first pair.
RECURSIVE JoinPairs(_, _)
JoinPairs(keys, p) ==
    IF keys = << >> THEN ""
    ELSE IF Len(keys) = 1 THEN keys[1] \o "=" \o p[keys[1]]
    ELSE keys[1] \o "=" \o p[keys[1]] \o "&" \o JoinPairs(Tail(keys), p)

SignedKeys(p) == SortSet({ k \in DOMAIN p : k # "sign" /\ p[k] # "" })

\* Params.Sign(signType): (string, error)
ParamsSign(p, signType, apiKey) ==
    LET str == JoinPairs(SignedKeys(p), p) \o "&key=" \o apiKey
    IN  IF signType = SignTypeMD5
        THEN [sign |-> DigestToUpper(SignMd5(str)), err |-> ErrNil]
        ELSE IF signType = SignType256
        THEN [sign |-> DigestToUpper(SignHMACSHA256(str, apiKey)), err |-> ErrNil]
        ELSE [sign |-> "", err |-> ErrE("ErrSignType")]

\* myPayer.checkForPay(): an error unless the credentials are configured.
checkForPay(isConfigured) == IF isConfigured THEN ErrNil ELSE ErrE("ErrPayer")

\* ------------------------------------------------ UnifiedOrder, checks
\* The sign type UnifiedOrder reads from the params (MD5 by default).
ReadSignType(m) == IF "sign_type" \in DOMAIN m THEN m["sign_type"] ELSE SignTypeMD5

\* The required-field loop stops at the first field of unifiedMustParam (other
\* than "sign") that m lacks: its position, or 0 when none is missing.
MissingAt(m, i) == unifiedMustParam[i] # "sign" /\ unifiedMustParam[i] \notin DOMAIN m
\* Mutant of FirstMissing: the loop reports the last missing field.
FirstMissing_Last(m) ==
    IF \A i \in 1..Len(unifiedMustParam) : ~MissingAt(m, i) THEN 0
    ELSE CHOOSE i \in 1..Len(unifiedMustParam) :
            MissingAt(m, i) /\ \A j \in (i + 1)..Len(unifiedMustParam) : ~MissingAt(m, j)

FirstMissing(m) ==
    IF \A i \in 1..Len(unifiedMustParam) : ~MissingAt(m, i) THEN 0
    ELSE CHOOSE i \in 1..Len(unifiedMustParam) :
            MissingAt(m, i) /\ \A j \in 1..(i - 1) : ~MissingAt(m, j)

\* Mutant of UnknownKeys: only the required list is consulted.
UnknownKeys_MustOnly(m) ==
    { k \in DOMAIN m : ~HaveInArray(unifiedMustParam, k) }

\* Mutant of UnknownKeys: "sign" is taken for a legal field.
UnknownKeys_SignAllowed(m) ==
    { k \in DOMAIN m :
        /\ k # "sign"
        /\ ~HaveInArray(unifiedMustParam, k) /\ ~HaveInArray(unifiedOptionalParam, k) }

\* The keys of m that are in neither list.
UnknownKeys(m) ==
    { k \in DOMAIN m :
        ~HaveInArray(unifiedMustParam, k) /\ ~HaveInArray(unifiedOptionalParam, k) }

\* The required-field loop: the error it returns, or nil.
MustParamErr(m) ==
    IF FirstMissing(m) = 0 THEN ErrNil
    ELSE ErrorsNew("need " \o unifiedMustParam[FirstMissing(m)])

\* Mutant of NoNeedErrs: the loop over the keys is skipped.
NoNeedErrs_Skipped(m) == {ErrNil}

\* The loop over the keys of the map: Go ranges over a map in no fixed order, so
\* the error may name any key that is in neither list.
NoNeedErrs(m) ==
    IF UnknownKeys(m) = {} THEN {ErrNil}
    ELSE { ErrorsNew("no need " \o k \o " param") : k \in UnknownKeys(m) }

\* Mutant of CheckParamErrs: openid is demanded whatever the trade type.
CheckParamErrs_OpenIdAlways(m) ==
    IF "trade_type" \notin DOMAIN m THEN {ErrE("ErrTradeType")}
    ELSE IF "openid" \notin DOMAIN m THEN {ErrE("ErrOpenId")}
    ELSE IF MustParamErr(m) # ErrNil THEN {MustParamErr(m)}
    ELSE NoNeedErrs(m)

\* The checks of UnifiedOrder on the params after appid and mch_id were added:
\* the set of errors the call may return from them ({ErrNil} when it passes).
CheckParamErrs(m) ==
    IF "trade_type" \notin DOMAIN m THEN {ErrE("ErrTradeType")}
    ELSE IF m["trade_type"] = "JSAPI" /\ "openid" \notin DOMAIN m THEN {ErrE("ErrOpenId")}
    ELSE IF MustParamErr(m) # ErrNil THEN {MustParamErr(m)}
    ELSE NoNeedErrs(m)

\* -------------------------------------------------- postUnifiedOrder
\* A reply of the transport: http.Post failed (connErr), or answered with a
\* status and a body; the body decodes into decoded, or fails to (decodeErr) and
\* leaves decoded partly filled or nil.
NilResult == [isNil |-> TRUE, u |-> EmptyResult]
SomeResult(u) == [isNil |-> FALSE, u |-> u]

\* postUnifiedOrder: the result and error it returns, and whether the response
\* body it obtained is closed when it returns.
postUnifiedOrder(o) ==
    IF o.connErr
    THEN [result |-> NilResult, err |-> ErrLib("http.Post"), body |-> "none"]
    ELSE IF o.status # StatusOK
    THEN [result |-> NilResult,
          err |-> ErrorsNew("http StatusCode: " \o ToString(o.status)),
          body |-> "open"]
    ELSE IF o.decodeErr
    THEN [result |-> o.decoded, err |-> ErrLib("xml.Decode"), body |-> "closed"]
    ELSE [result |-> o.decoded, err |-> ErrNil, body |-> "closed"]

\* ------------------------------------------ UnifiedOrder, reply checks
\* Mutant of ReplyErr: the result of checkWxSign is not looked at.
ReplyErr_NoSignCheck(u, signType, apiKey) ==
    IF u.return_code # "SUCCESS" THEN ErrorsNew(u.return_msg)
    ELSE IF u.result_code # "SUCCESS" THEN ErrorsNew(u.err_code_des)
    ELSE ErrNil

\* Mutant of ReplyErr: result_code is checked before return_code.
ReplyErr_BusinessFirst(u, signType, apiKey) ==
    IF u.result_code # "SUCCESS" THEN ErrorsNew(u.err_code_des)
    ELSE IF u.return_code # "SUCCESS" THEN ErrorsNew(u.return_msg)
    ELSE LET c == checkWxSign(u, signType, apiKey)
         IN  IF ~c.ok \/ c.err # ErrNil THEN ErrE("ErrCheckSign") ELSE ErrNil

\* What UnifiedOrder returns for a decoded reply: the return_code and
\* result_code checks, then checkWxSign.
ReplyErr(u, signType, apiKey) ==
    IF u.return_code # "SUCCESS" THEN ErrorsNew(u.return_msg)
    ELSE IF u.result_code # "SUCCESS" THEN ErrorsNew(u.err_code_des)
    ELSE LET c == checkWxSign(u, signType, apiKey)
         IN  IF ~c.ok \/ c.err # ErrNil THEN ErrE("ErrCheckSign") ELSE ErrNil

\* Whether UnifiedOrder calls checkWxSign for a decoded reply.
ReachesCheckWxSign(u) == u.return_code = "SUCCESS" /\ u.result_code = "SUCCESS"

\* ------------------------------------------------------------ inputs
\* The Params a caller builds: every required field but at most MaxMissing of
\* them, a trade type, and any of openid, sign_type, a key of neither list
\* ("foo") and a sign of its own.
CallerValue(k, tt, st) ==
    IF k = "trade_type" THEN tt
    ELSE IF k = "sign_type" THEN st
    ELSE IF k = "appid" THEN "wx0"
    ELSE "v"

ExtraKeys == {"openid", "sign_type", "foo", "sign"}
TradeTypes == {"JSAPI", "NATIVE"}
SignTypes == {SignTypeMD5, SignType256, "SHA1"}

NilParams == [isNil |-> TRUE, m |-> << >>]
MapParams(m) == [isNil |-> FALSE, m |-> m]

CallerParams ==
    {NilParams} \cup
    { MapParams([ k \in (Range(unifiedMustParam) \ missing) \cup extra
                    |-> CallerValue(k, tt, st) ]) :
        missing \in { x \in SUBSET Range(unifiedMustParam) : Cardinality(x) <= MaxMissing },
        extra \in SUBSET ExtraKeys,
        tt \in TradeTypes,
        st \in SignTypes }

\* Replies of the gateway.  A reply body, before its sign is set:
ReplyBodies ==
    { [EmptyResult EXCEPT !.return_code = rc, !.result_code = bc, !.return_msg = rm,
                          !.err_code_des = ed, !.prepay_id = pp] :
        rc \in {"SUCCESS", "FAIL", ""}, bc \in {"SUCCESS", "FAIL", ""},
        rm \in {"", "OK"}, ed \in {"", "denied"}, pp \in {"", "p1"} }

\* The values a tampering party may put in a signed field.
TamperValues(t) ==
    IF t \in {"return_code", "result_code"} THEN {"", "SUCCESS", "FAIL"}
    ELSE IF t = "prepay_id" THEN {"", "p1", "p2"}
    ELSE IF t = "appid" THEN {"", "wx1", "wx1&code_url=u"}
    ELSE {"", "v", "w"}

\* The replies that differ from u in the value of exactly one signed field
\* (a non-empty field other than sign) and carry the same sign.
Tampered(u) ==
    UNION { { [u EXCEPT ![t] = v] : v \in { w \in TamperValues(t) : w # u[t] } } :
            t \in { x \in DOMAIN ListParam(u) : x # "sign" } }

\* The canonical string of a reply as the protocol states it: the pairs of the
\* non-empty fields other than sign, in key order, joined by '&', then the key.
CanonicalString(u, apiKey) ==
    JoinPairs(SignedKeys(ListParam(u)), ListParam(u)) \o "&key=" \o apiKey

\* The signature the gateway puts on a reply.
GatewaySign(u, signType, apiKey) ==
    IF signType = SignTypeMD5
    THEN DigestToUpper(SignMd5(CanonicalString(u, apiKey)))
    ELSE DigestToUpper(SignHMACSHA256(CanonicalString(u, apiKey), apiKey))

\* The signs a reply body may carry: none, garbage, the gateway's signature of
\* the body itself or of a body that differs in one field, under either
\* algorithm, the MD5 signature in lower case, and the digest of whatever
\* string checkWxSign builds for the body.
SignsFor(b, others) ==
    {"", "BAD", SignMd5(CanonicalString(b, PayerApiKey))}
    \cup { GatewaySign(x, a, PayerApiKey) :
             x \in {b} \cup others, a \in {SignTypeMD5, SignType256} }
    \cup { WxSign(b, a, PayerApiKey) : a \in {SignTypeMD5, SignType256} }

Replies ==
    UNION { { [b EXCEPT !.sign = s] : s \in SignsFor(b, {[b EXCEPT !.prepay_id = "p2"]}) } :
            b \in ReplyBodies }

NoWire == [connErr |-> FALSE, status |-> 0, decodeErr |-> FALSE, decoded |-> NilResult]
TransportOutcomes ==
    { [NoWire EXCEPT !.connErr = TRUE] }
    \cup { [NoWire EXCEPT !.status = st] : st \in {404, 500} }
    \cup { [NoWire EXCEPT !.status = StatusOK, !.decodeErr = TRUE, !.decoded = d] :
            d \in {NilResult, SomeResult([EmptyResult EXCEPT !.return_code = "FAIL"])} }
    \cup { [NoWire EXCEPT !.status = StatusOK, !.decoded = SomeResult(u)] : u \in Replies }

\* -------------------------------------------------------------- state
VARIABLES
    configured,   \* the payer's credentials are set (checkForPay passes)
    param,        \* the caller's Params object, mutated by UnifiedOrder
    pc,           \* position of the current UnifiedOrder call
    signType,     \* local signType of the call
    postResult,   \* local result of the call (what postUnifiedOrder returned)
    result,       \* returned ResultParam of the last finished call
    err,          \* returned error of the last finished call
    calls,        \* UnifiedOrder calls started
    entry,        \* history: the Params the current call was entered with
    posts,        \* history: postUnifiedOrder calls made by the current call
    wire,         \* history: what the transport answered in the current call
    openBodies,   \* response bodies obtained and not closed
    wxChecked,    \* history: checkWxSign was evaluated in the current call
    wxRes,        \* what checkWxSign returned
    hashed,       \* the string checkWxSign hashed ("" if it hashed none)
    signHist,     \* history: "none" until a call on this Params reaches
                  \* param.Sign, then "failed", and "passed" once one succeeded
    entryHist     \* history: signHist when the current call was entered

vars == << configured, param, pc, signType, postResult, result, err, calls,
           entry, posts, wire, openBodies, wxChecked, wxRes, hashed,
           signHist, entryHist >>

NoWx == [ok |-> FALSE, err |-> ErrNil]

Init ==
    /\ configured \in BOOLEAN
    /\ param \in CallerParams
    /\ pc = "idle"
    /\ signType = ""
    /\ postResult = NilResult
    /\ result = NilResult
    /\ err = ErrNil
    /\ calls = 0
    /\ entry = param
    /\ posts = 0
    /\ wire = NoWire
    /\ openBodies = 0
    /\ wxChecked = FALSE
    /\ wxRes = NoWx
    /\ hashed = ""
    /\ signHist = "none"
    /\ entryHist = "none"

\* return res, e
Return(res, e) ==
    /\ pc' = "done"
    /\ result' = res
    /\ err' = e

\* UnifiedOrder, from its entry to the end of the checks of the params.
Validate ==
    /\ pc \in {"idle", "done"}
    /\ calls < MaxCalls
    /\ calls' = calls + 1
    /\ entry' = param
    /\ posts' = 0
    /\ wire' = NoWire
    /\ wxChecked' = FALSE
    /\ wxRes' = NoWx
    /\ hashed' = ""
    /\ postResult' = NilResult
    /\ entryHist' = signHist
    /\ UNCHANGED << configured, openBodies, signHist >>
    /\ IF param.isNil
       THEN Return(NilResult, ErrE("ErrParams")) /\ signType' = "" /\ UNCHANGED param
       ELSE IF checkForPay(configured) # ErrNil
       THEN Return(NilResult, checkForPay(configured)) /\ signType' = "" /\ UNCHANGED param
       ELSE LET m == ParamsAdd(ParamsAdd(param.m, "appid", PayerAppId), "mch_id", PayerMchId)
            IN  /\ param' = MapParams(m)
                /\ signType' = IF "trade_type" \in DOMAIN m
                               THEN ReadSignType(m) ELSE SignTypeMD5
                /\ \E e \in CheckParamErrs(m) :
                     IF e # ErrNil
                     THEN Return(NilResult, e)
                     ELSE pc' = "sign" /\ UNCHANGED << result, err >>

\* sign, err := param.Sign(signType); param.Add("sign", sign)
Sign ==
    /\ pc = "sign"
    /\ LET s == ParamsSign(param.m, signType, PayerApiKey)
       IN  IF s.err # ErrNil
           THEN /\ Return(NilResult, s.err)
                /\ signHist' = IF signHist = "passed" THEN "passed" ELSE "failed"
                /\ UNCHANGED param
           ELSE /\ param' = MapParams(ParamsAdd(param.m, "sign", s.sign))
                /\ signHist' = "passed"
                /\ pc' = "marshal"
                /\ UNCHANGED << result, err >>
    /\ UNCHANGED << configured, signType, postResult, calls, entry, posts, wire,
                    openBodies, wxChecked, wxRes, hashed, entryHist >>

\* reader, err := param.MarshalXML()
Marshal ==
    /\ pc = "marshal"
    /\ \E ok \in BOOLEAN :
         IF ok THEN pc' = "post" /\ UNCHANGED << result, err >>
         ELSE Return(NilResult, ErrLib("xml.Marshal"))
    /\ UNCHANGED << configured, param, signType, postResult, calls, entry, posts,
                    wire, openBodies, wxChecked, wxRes, hashed, signHist, entryHist >>

\* result, err := postUnifiedOrder(...)
Post ==
    /\ pc = "post"
    /\ \E o \in TransportOutcomes :
         LET r == postUnifiedOrder(o)
         IN  /\ wire' = o
             /\ posts' = posts + 1
             /\ openBodies' = IF r.body = "open" THEN openBodies + 1 ELSE openBodies
             /\ IF r.err # ErrNil
                THEN Return(NilResult, r.err) /\ UNCHANGED postResult
                ELSE /\ postResult' = r.result
                     /\ pc' = "gate"
                     /\ UNCHANGED << result, err >>
    /\ UNCHANGED << configured, param, signType, calls, entry, wxChecked, wxRes, hashed,
                    signHist, entryHist >>

\* The checks of the decoded reply and the final return.
Gate ==
    /\ pc = "gate"
    /\ LET u == postResult.u
           e == ReplyErr(u, signType, PayerApiKey)
       IN  /\ wxChecked' = ReachesCheckWxSign(u)
           /\ wxRes' = IF ReachesCheckWxSign(u)
                       THEN checkWxSign(u, signType, PayerApiKey) ELSE NoWx
           /\ hashed' = IF ReachesCheckWxSign(u)
                        THEN HashedBy(u, signType, PayerApiKey) ELSE ""
           /\ IF e # ErrNil THEN Return(NilResult, e) ELSE Return(postResult, ErrNil)
    /\ UNCHANGED << configured, param, signType, postResult, calls, entry, posts,
                    wire, openBodies, signHist, entryHist >>

Next == Validate \/ Sign \/ Marshal \/ Post \/ Gate

Spec == Init /\ [][Next]_vars

\* ------------------------------------------- checkWxSign on its own
\* checkWxSign as a function of the reply and the sign type: the reply is any
\* unifiedResult, whatever subset of its fields is non-empty.
VerifyBodies ==
    { [EmptyResult EXCEPT !.return_code = rc, !.result_code = bc, !.appid = a,
                          !.prepay_id = pp, !.trade_type = tt, !.code_url = cu] :
        rc \in {"", "SUCCESS"}, bc \in {"", "SUCCESS"},
        a \in {"", "wx1", "wx1&code_url=u"}, pp \in {"", "p1"},
        tt \in {"", "NATIVE"}, cu \in {"", "u"} }

VerifyReplies ==
    UNION { { [b EXCEPT !.sign = s] : s \in SignsFor(b, Tampered(b)) } : b \in VerifyBodies }

InitVerify ==
    /\ configured = TRUE
    /\ param = NilParams
    /\ pc = "verify"
    /\ signType \in {"", SignTypeMD5, SignType256, "SHA1"}
    /\ postResult \in { SomeResult(u) : u \in VerifyReplies }
    /\ result = NilResult
    /\ err = ErrNil
    /\ calls = 0
    /\ entry = param
    /\ posts = 0
    /\ wire = NoWire
    /\ openBodies = 0
    /\ wxChecked = FALSE
    /\ wxRes = NoWx
    /\ hashed = ""
    /\ signHist = "none"
    /\ entryHist = "none"

\* postResult.checkWxSign(signType)
VerifySign ==
    /\ pc = "verify"
    /\ pc' = "verified"
    /\ wxChecked' = TRUE
    /\ wxRes' = checkWxSign(postResult.u, signType, PayerApiKey)
    /\ hashed' = HashedBy(postResult.u, signType, PayerApiKey)
    /\ UNCHANGED << configured, param, signType, postResult, result, err, calls,
                    entry, posts, wire, openBodies, signHist, entryHist >>

NextVerify == VerifySign

SpecVerify == InitVerify /\ [][NextVerify]_vars

\* ============================================================== claims
\* What the current call was entered with, after appid and mch_id are added.
EntryMap == ParamsAdd(ParamsAdd(entry.m, "appid", PayerAppId), "mch_id", PayerMchId)
MustSet == Range(unifiedMustParam)
AllowedSet == Range(unifiedMustParam) \cup Range(unifiedOptionalParam)
\* The call has a Params and the payer has credentials.
EntryUsable == ~entry.isNil /\ configured
JsapiWithoutOpenId(m) ==
    "trade_type" \in DOMAIN m /\ m["trade_type"] = "JSAPI" /\ "openid" \notin DOMAIN m
\* The call's Params pass every validation step.
EntryValid ==
    /\ EntryUsable
    /\ MustSet \subseteq DOMAIN EntryMap
    /\ ~JsapiWithoutOpenId(EntryMap)
    /\ DOMAIN EntryMap \subseteq AllowedSet
\* The sign type the call's Params select is one the signer supports.
EntrySignable ==
    \/ "sign_type" \notin DOMAIN entry.m
    \/ entry.m["sign_type"] \in {SignTypeMD5, SignType256}
\* e is the unknown-field failure naming one of the keys.
IsNoNeed(e, keys) == \E k \in keys : e = ErrorsNew("no need " \o k \o " param")
\* The call returned a nil result and an error.
Failed == result.isNil /\ err # ErrNil
\* The transport answered 200 with a body that decoded.
WireOk == ~wire.connErr /\ wire.status = StatusOK /\ ~wire.decodeErr
Reply == wire.decoded.u
\* The reply is one the claim C1 lets through.
Authentic ==
    LET st == IF signType = "" THEN SignTypeMD5 ELSE signType
    IN  /\ posts = 1
        /\ WireOk
        /\ Reply.return_code = "SUCCESS"
        /\ Reply.result_code = "SUCCESS"
        /\ Reply.sign # ""
        /\ st \in {SignTypeMD5, SignType256}
        /\ Reply.sign = WxSign(Reply, st, PayerApiKey)
\* The first field of the required list that is in the set miss.
FirstOf(miss) ==
    unifiedMustParam[CHOOSE i \in 1..Len(unifiedMustParam) :
        /\ unifiedMustParam[i] \in miss
        /\ \A j \in 1..(i - 1) : unifiedMustParam[j] \notin miss]
\* A finished call whose Params are valid but for the required fields they lack.
MissingCase ==
    /\ pc = "done" /\ EntryUsable
    /\ DOMAIN entry.m \subseteq AllowedSet
    /\ ~JsapiWithoutOpenId(entry.m)
\* The failure e names the required field f.
NamesField(e, f) ==
    \/ e = ErrorsNew("need " \o f)
    \/ f = "trade_type" /\ e = ErrE("ErrTradeType")
\* sign is in the caller's Params after the call but was not at its entry.
SignAdded == "sign" \in DOMAIN param.m /\ (entry.isNil \/ "sign" \notin DOMAIN entry.m)
\* e is a failure of one of the validation steps.
IsValidationErr(e) ==
    \/ e \in {ErrE("ErrParams"), ErrE("ErrPayer"), ErrE("ErrTradeType"), ErrE("ErrOpenId")}
    \/ \E f \in MustSet : e = ErrorsNew("need " \o f)
    \/ IsNoNeed(e, DOMAIN param.m)

\* C1: UnifiedOrder returns a result with a nil error exactly when the reply
\* came with status 200, decoded, carries return_code and result_code "SUCCESS"
\* and a non-empty sign equal to the signature checkWxSign recomputes; in every
\* other case the result is nil and the error is not.
C1_VerifiedResultOnly ==
    pc = "done" =>
        IF Authentic
        THEN ~result.isNil /\ result.u = Reply /\ err = ErrNil
        ELSE Failed

\* Witness of C1: a call returned a reply signed with HMAC-SHA256.
C1_Witness ==
    /\ pc = "done" /\ Authentic /\ ~result.isNil /\ err = ErrNil
    /\ signType = SignType256 /\ Reply.prepay_id = "p1"

\* C2: the reply is gated in the order transport, protocol, business,
\* signature: a failure of postUnifiedOrder is returned as it is; otherwise
\* return_code # "SUCCESS" yields return_msg whatever result_code and sign are;
\* otherwise result_code # "SUCCESS" yields err_code_des whatever sign is;
\* checkWxSign runs only after both are "SUCCESS", and ErrCheckSign is returned
\* only when it ran.
C2_GateOrder ==
    /\ wxChecked =>
         /\ pc = "done" /\ posts = 1 /\ WireOk
         /\ Reply.return_code = "SUCCESS" /\ Reply.result_code = "SUCCESS"
    /\ (pc = "done" /\ err = ErrE("ErrCheckSign")) => wxChecked
    /\ (pc = "done" /\ posts = 1) =>
         IF wire.connErr THEN err = ErrLib("http.Post")
         ELSE IF wire.status # StatusOK
         THEN err = ErrorsNew("http StatusCode: " \o ToString(wire.status))
         ELSE IF wire.decodeErr THEN err = ErrLib("xml.Decode")
         ELSE IF Reply.return_code # "SUCCESS" THEN err = ErrorsNew(Reply.return_msg)
         ELSE IF Reply.result_code # "SUCCESS" THEN err = ErrorsNew(Reply.err_code_des)
         ELSE wxChecked

\* Witness of C2: a reply with both codes "FAIL" and a good sign got return_msg.
C2_Witness ==
    /\ pc = "done" /\ posts = 1 /\ WireOk
    /\ Reply.return_code = "FAIL" /\ Reply.result_code = "FAIL"
    /\ Reply.return_msg = "OK" /\ Reply.err_code_des = "denied"
    /\ Reply.sign = WxSign(Reply, SignTypeMD5, PayerApiKey)
    /\ err = ErrorsNew("OK")

\* C3: a call invokes the transport at most once, and only after validation,
\* signing and serialization succeeded; a call that fails one of them returns
\* an error with no transport call made, a call that passes them makes one.
C3_OnePost ==
    /\ posts \in {0, 1}
    /\ pc \in {"sign", "marshal", "post"} => posts = 0
    /\ posts = 1 => EntryValid /\ EntrySignable /\ "sign" \in DOMAIN param.m
    /\ pc = "done" =>
         IF EntryValid /\ EntrySignable /\ err # ErrLib("xml.Marshal")
         THEN posts = 1
         ELSE posts = 0 /\ Failed

\* Witness of C3: a valid call made its one transport call, which failed.
C3_Witness == pc = "done" /\ posts = 1 /\ EntryValid /\ wire.connErr

\* C4: every response body postUnifiedOrder obtained is closed when the call
\* has returned, on every exit path.
C4_BodiesClosed == pc = "done" => openBodies = 0

\* C5 as claimed: a Params that is otherwise valid but lacks required fields is
\* rejected with a failure naming the first missing field of the required
\* list, whichever fields those are, and nothing is sent.
C5_Original ==
    (MissingCase /\ MustSet \ DOMAIN entry.m # {}) =>
        /\ posts = 0 /\ Failed
        /\ NamesField(err, FirstOf(MustSet \ DOMAIN entry.m))

\* C5 amended: appid and mch_id are added by UnifiedOrder, so lacking them is no
\* failure; a Params that lacks other required fields is rejected and nothing
\* is sent, with ErrTradeType if trade_type is among them and otherwise with
\* "need f" for the first missing field f in the order of the required list.
C5_MissingRequired ==
    MissingCase =>
        LET miss == (MustSet \ DOMAIN entry.m) \ {"appid", "mch_id"}
        IN  IF miss = {}
            THEN /\ err # ErrE("ErrTradeType")
                 /\ \A f \in MustSet : err # ErrorsNew("need " \o f)
            ELSE /\ posts = 0 /\ Failed
                 /\ err = IF "trade_type" \in miss THEN ErrE("ErrTradeType")
                          ELSE ErrorsNew("need " \o FirstOf(miss))

\* Witness of C5: a Params lacking two required fields got the first one named.
C5_Witness ==
    /\ MissingCase
    /\ MustSet \ DOMAIN entry.m = {"out_trade_no", "notify_url"}
    /\ err = ErrorsNew("need out_trade_no")

\* C6 as claimed: a Params with all required fields and a key outside both
\* lists is always rejected with an unknown-field failure naming such a key,
\* nothing is sent; a Params whose keys are all in the lists never fails so.
C6_Original ==
    (pc = "done" /\ EntryUsable) =>
        /\ (MustSet \subseteq DOMAIN entry.m /\ ~(DOMAIN entry.m \subseteq AllowedSet)) =>
             /\ posts = 0 /\ Failed
             /\ IsNoNeed(err, DOMAIN entry.m \ AllowedSet)
        /\ DOMAIN entry.m \subseteq AllowedSet => ~IsNoNeed(err, DOMAIN entry.m \cup ExtraKeys)

\* C6 amended: such a Params is always rejected and nothing is sent; the
\* failure is the unknown-field failure naming a key outside both lists, except
\* that a JSAPI Params without openid gets the missing-openid failure of the
\* earlier check.  A Params whose keys are all in the lists never gets the
\* unknown-field failure.
C6_AllowList ==
    (pc = "done" /\ EntryUsable) =>
        /\ (MustSet \subseteq DOMAIN entry.m /\ ~(DOMAIN entry.m \subseteq AllowedSet)) =>
             /\ posts = 0 /\ Failed
             /\ IF JsapiWithoutOpenId(entry.m)
                THEN err = ErrE("ErrOpenId")
                ELSE IsNoNeed(err, DOMAIN entry.m \ AllowedSet)
        /\ DOMAIN entry.m \subseteq AllowedSet => ~IsNoNeed(err, DOMAIN entry.m \cup ExtraKeys)

\* Witness of C6: a Params with two keys outside the lists was rejected naming
\* one of them.
C6_Witness ==
    /\ pc = "done" /\ EntryUsable /\ calls = 1
    /\ MustSet \subseteq DOMAIN entry.m
    /\ DOMAIN entry.m \ AllowedSet = {"foo", "sign"}
    /\ err = ErrorsNew("no need foo param")

\* C7: the string checkWxSign hashes is the canonical string of the reply,
\* whatever subset of the reply's fields is non-empty; with a pair in it, it does
\* not begin with '&'.
C7_CanonicalString ==
    (pc = "verified" /\ wxRes.err # ErrE("ErrSignType")) =>
        /\ hashed = CanonicalString(postResult.u, PayerApiKey)
        /\ SignedKeys(ListParam(postResult.u)) # << >> => SubSeq(hashed, 1, 1) # "&"

\* C8: when checkWxSign reports a match for a reply, it reports no match for
\* every reply that differs from it in the value of exactly one signed field
\* and carries the same sign (the digest being injective).
C8_TamperDetected ==
    (pc = "verified" /\ wxRes.ok) =>
        \A t \in Tampered(postResult.u) : ~checkWxSign(t, signType, PayerApiKey).ok

\* Witness of C8: a match on a reply with several signed fields, one of them
\* holding '&' and '='.
C8_Witness ==
    /\ pc = "verified" /\ wxRes.ok /\ signType = SignType256
    /\ postResult.u.prepay_id = "p1" /\ postResult.u.appid = "wx1&code_url=u"
    /\ Cardinality(Tampered(postResult.u)) >= 4

\* C9: a JSAPI Params without openid is rejected with ErrOpenId and nothing is
\* sent; the same Params with another trade type is not rejected for it: if it
\* is otherwise valid it passes validation, is signed and, once serialized, sent.
C9_JsapiOpenId ==
    (pc = "done" /\ EntryUsable /\ "trade_type" \in DOMAIN entry.m
                 /\ "openid" \notin DOMAIN entry.m) =>
        IF entry.m["trade_type"] = "JSAPI"
        THEN err = ErrE("ErrOpenId") /\ posts = 0 /\ Failed
        ELSE /\ err # ErrE("ErrOpenId")
             /\ (MustSet \subseteq DOMAIN EntryMap /\ DOMAIN EntryMap \subseteq AllowedSet) =>
                  IF EntrySignable
                  THEN /\ "sign" \in DOMAIN param.m
                       /\ posts = 1 \/ err = ErrLib("xml.Marshal")
                  ELSE err = ErrE("ErrSignType")

\* Witness of C9: a NATIVE Params without openid was sent and accepted.
C9_Witness ==
    /\ pc = "done" /\ EntryUsable /\ "openid" \notin DOMAIN entry.m
    /\ "trade_type" \in DOMAIN entry.m /\ entry.m["trade_type"] = "NATIVE"
    /\ posts = 1 /\ err = ErrNil

\* C10 as claimed: sign is added exactly when the call passed validation and
\* signing; a Params that already holds sign is always rejected by the
\* unknown-field check, nothing sent; after the first call that reaches signing
\* every later call on the object fails validation and sends nothing.
C10_Original ==
    pc = "done" =>
        /\ SignAdded <=> (EntryValid /\ EntrySignable)
        /\ (EntryUsable /\ "sign" \in DOMAIN entry.m) =>
             posts = 0 /\ Failed /\ IsNoNeed(err, DOMAIN entry.m \ AllowedSet)
        /\ entryHist # "none" => posts = 0 /\ Failed /\ IsValidationErr(err)

\* C10 amended: sign is added exactly when the call passed validation and
\* signing; a Params that already holds sign is always rejected with nothing
\* sent, by the unknown-field check whenever it passes the checks before that
\* one; after the first call whose signing succeeded every later call on the
\* object fails the unknown-field check and sends nothing.
C10_SignBlocksReuse ==
    pc = "done" =>
        /\ SignAdded <=> (EntryValid /\ EntrySignable)
        /\ (EntryUsable /\ "sign" \in DOMAIN entry.m) =>
             /\ posts = 0 /\ Failed
             /\ (MustSet \subseteq DOMAIN EntryMap /\ ~JsapiWithoutOpenId(EntryMap)) =>
                  IsNoNeed(err, DOMAIN entry.m \ AllowedSet)
        /\ entryHist = "passed" =>
             posts = 0 /\ Failed /\ err = ErrorsNew("no need sign param")

\* Witness of C10: the second call on a Params the first call signed.
C10_Witness ==
    /\ pc = "done" /\ calls = 2 /\ entryHist = "passed"
    /\ err = ErrorsNew("no need sign param")
====
